---- MODULE Spec2Model ----
(***************************************************************************)
(* Model of the two plotting scripts of the repository:                    *)
(*   graphs.py          load_snapshots, build_timeseries, main             *)
(*   monitor/graphs.py  load_metrics and the __main__ block                *)
(* A run starts from a file system (directories of files with contents),   *)
(* the command-line arguments and an empty console.                        *)
(***************************************************************************)
EXTENDS Integers, Sequences, FiniteSets, TLC

\* ---------------------------------------------------------------- bounds
\* Largest number of files on the file system of a run.
MaxFiles == 3
\* Largest number of entries of a stats, db_stats or toast_stats array.
MaxRecs == 2

\* ------------------------------------------------------- optional values
\* Python's None / a missing key is the empty tuple, a value v is <<v>>.
None == <<>>
Some(v) == <<v>>
IsNone(o) == o = <<>>

\* All sequences over S of length at most n.
SeqUpTo(S, n) == UNION {[1..k -> S] : k \in 0..n}

RECURSIVE SumSeq(_)
SumSeq(s) == IF s = <<>> THEN 0 ELSE Head(s) + SumSeq(Tail(s))

\* ------------------------------------------------------------ file names
\* A file name is prefix + digits + extension; its characters are the
\* ASCII codes, so that the order of names is Python's string order.
StatsPrefix == <<115, 116, 97, 116, 115, 95>>
OtherPrefix == <<109, 95>>
JsonSuffix == <<46, 106, 115, 111, 110>>
TxtSuffix == <<46, 116, 120, 116>>
FileName(pre, digits, ext) == pre \o [i \in 1..Len(digits) |-> 48 + digits[i]] \o ext

Stats1Json == FileName(StatsPrefix, <<1>>, JsonSuffix)
Stats10Json == FileName(StatsPrefix, <<1, 0>>, JsonSuffix)
Stats2Json == FileName(StatsPrefix, <<2>>, JsonSuffix)
Other1Json == FileName(OtherPrefix, <<1>>, JsonSuffix)
Stats1Txt == FileName(StatsPrefix, <<1>>, TxtSuffix)
Names == {Stats10Json, Stats2Json, Other1Json, Stats1Txt}

StartsWith(s, p) == Len(s) >= Len(p) /\ SubSeq(s, 1, Len(p)) = p
EndsWith(s, p) == Len(s) >= Len(p) /\ SubSeq(s, Len(s) - Len(p) + 1, Len(s)) = p

\* glob "stats_*.json"
GlobStats(name) ==
    /\ Len(name) >= Len(StatsPrefix) + Len(JsonSuffix)
    /\ StartsWith(name, StatsPrefix)
    /\ EndsWith(name, JsonSuffix)

\* Python's str <: the first differing character decides, a proper prefix is smaller.
RECURSIVE StrLess(_, _)
StrLess(a, b) ==
    IF b = <<>> THEN FALSE
    ELSE IF a = <<>> THEN TRUE
    ELSE IF Head(a) # Head(b) THEN Head(a) < Head(b)
    ELSE StrLess(Tail(a), Tail(b))

\* Sorted with shorter names first (a numeric order of the file numbers).
RECURSIVE SortedShortestFirst(_)
SortedShortestFirst(S) ==
    IF S = {} THEN <<>>
    ELSE LET m == CHOOSE x \in S : \A y \in S \ {x} :
                      Len(x) < Len(y) \/ (Len(x) = Len(y) /\ StrLess(x, y))
         IN <<m>> \o SortedShortestFirst(S \ {m})

\* sorted(names): the names of the set S in ascending string order.
RECURSIVE Sorted(_)
Sorted(S) ==
    IF S = {} THEN <<>>
    ELSE LET m == CHOOSE x \in S : \A y \in S \ {x} : StrLess(x, y)
         IN <<m>> \o Sorted(S \ {m})

\* ------------------------------------------------------------ timestamps
\* The "timestamp" field of a JSON object: missing, a non-string value, or a
\* string that is or is not ISO-8601 (day is the instant an ISO string names).
TsAbsent == [kind |-> "absent", iso |-> FALSE, day |-> 0]
TsNonString == [kind |-> "nonstring", iso |-> FALSE, day |-> 0]
TsMalformed == [kind |-> "string", iso |-> FALSE, day |-> 0]
TsIso(d) == [kind |-> "string", iso |-> TRUE, day |-> d]
Days == {1, 2}
TsFields == {TsAbsent, TsNonString, TsMalformed} \cup {TsIso(d) : d \in Days}

\* datetime values: parsed from a file, or read from the wall clock.
FromIso(ts) == [src |-> "iso", t |-> ts.day]
Now(clk) == [src |-> "now", t |-> clk]

\* ------------------------------------------- graphs.py: file contents
\* A stats entry: a JSON object with an optional "datname" and optional
\* metric fields "x" and "y".
StatsRecord(name, x, y) == [datname |-> name, x |-> x, y |-> y]
Metrics == {"x", "y"}
StatsRecords ==
    { StatsRecord(Some("a"), Some(5), None),
      StatsRecord(Some("a"), Some(7), Some(9)),
      StatsRecord(None, Some(7), None),
      StatsRecord(Some("unknown"), Some(5), None),
      StatsRecord(Some("a"), None, Some(9)) }

\* A file read by load_snapshots: whether open() succeeds, what json.load
\* makes of the text, and the fields of the object.
SnapFile(open, json, ts, stats) ==
    [open |-> open, json |-> json, timestamp |-> ts, stats |-> stats]
SnapUnopenable == SnapFile(FALSE, "object", TsAbsent, None)
SnapInvalidJson == SnapFile(TRUE, "invalid", TsAbsent, None)
SnapArray == SnapFile(TRUE, "array", TsAbsent, None)
SnapObject(ts, stats) == SnapFile(TRUE, "object", ts, stats)
StatsFields == {None} \cup {Some(s) : s \in SeqUpTo(StatsRecords, MaxRecs)}

\* ----------------------------------------------- graphs.py: load_snapshots
Failure(e) == [ok |-> FALSE, err |-> e, rec |-> <<>>]
Success(r) == [ok |-> TRUE, err |-> "", rec |-> <<r>>]

\* dict.get(key, default) on an optional field.
GetOr(field, default) == IF IsNone(field) THEN default ELSE field[1]

\* SnapshotTimestamp falling back to the wall clock for a malformed string.
SnapshotTimestampLenient(ts, clk) ==
    IF ts.kind = "string" /\ ts.iso THEN Success(FromIso(ts)) ELSE Success(Now(clk))

\* The timestamp branch of load_snapshots (lines 19-23).
SnapshotTimestamp(ts, clk) ==
    IF ts.kind = "string"
    THEN IF ts.iso THEN Success(FromIso(ts)) ELSE Failure("ValueError")
    ELSE Success(Now(clk))

\* The body of the try block of load_snapshots for an opened file.
ParseSnapshot(c, clk) ==
    IF c.json = "invalid" THEN Failure("JSONDecodeError")
    ELSE IF c.json = "array" THEN Failure("AttributeError")
    ELSE LET ts == SnapshotTimestamp(c.timestamp, clk)
         IN IF ~ts.ok THEN ts
            ELSE Success([timestamp |-> ts.rec[1], stats |-> GetOr(c.stats, <<>>)])

\* ------------------------------------- monitor/graphs.py: file contents
DbRecord(datname, hit, read) == [datname |-> datname, blks_hit |-> hit, blks_read |-> read]
NullString(str, valid) == Some([String |-> str, Valid |-> valid])
DbRecords ==
    { DbRecord(NullString("postgres", TRUE), Some(6), Some(3)),
      DbRecord(NullString("postgres", TRUE), Some(6), Some(0)),
      DbRecord(NullString("postgres", TRUE), None, None),
      DbRecord(NullString("postgres", FALSE), Some(6), Some(3)),
      DbRecord(NullString("other", TRUE), Some(4), Some(2)),
      DbRecord(None, Some(4), Some(2)) }
ToastRecords == {[toast_size_bytes |-> v] : v \in {None, Some(100), Some(50)}}
AvgKeys ==
    {"avg_select_time_ms", "avg_insert_time_ms", "avg_update_time_ms",
     "avg_delete_time_ms", "avg_select_size_bytes"}
NoAvg == [k \in AvgKeys |-> None]
SomeAvg == [k \in AvgKeys |-> IF k = "avg_select_size_bytes" THEN Some(8) ELSE Some(4)]

MetricsFile(open, json, ts, db, toast, avg) ==
    [open |-> open, json |-> json, timestamp |-> ts, db_stats |-> db,
     toast_stats |-> toast, avg |-> avg]
MetricsUnopenable == MetricsFile(FALSE, "object", TsAbsent, None, None, NoAvg)
MetricsInvalidJson == MetricsFile(TRUE, "invalid", TsAbsent, None, None, NoAvg)
MetricsArray == MetricsFile(TRUE, "array", TsAbsent, None, None, NoAvg)
MetricsObject(ts, db, toast, avg) == MetricsFile(TRUE, "object", ts, db, toast, avg)
DbFields == {None} \cup {Some(s) : s \in SeqUpTo(DbRecords, MaxRecs)}
ToastFields == {None} \cup {Some(s) : s \in SeqUpTo(ToastRecords, MaxRecs)}

\* ---------------------------------------- monitor/graphs.py: load_metrics
\* datetime.fromisoformat(content["timestamp"]) (line 18).
MetricsTimestamp(ts) ==
    IF ts.kind = "absent" THEN Failure("KeyError")
    ELSE IF ts.kind = "nonstring" THEN Failure("TypeError")
    ELSE IF ts.iso THEN Success(FromIso(ts))
    ELSE Failure("ValueError")

\* IsPostgres without the test of the Valid flag.
IsPostgresAnyValidity(db) == db.datname[1].String = "postgres"

\* db["datname"]["String"] == "postgres" and db["datname"]["Valid"] (line 22).
IsPostgres(db) == db.datname[1].String = "postgres" /\ db.datname[1].Valid

\* next((db for db in content["db_stats"] if ...), None) (lines 21-22): the
\* first matching record; a record without "datname" met before it raises.
RECURSIVE FindPostgres(_)
FindPostgres(dbs) ==
    IF dbs = <<>> THEN Success(None)
    ELSE IF IsNone(Head(dbs).datname) THEN Failure("KeyError")
    ELSE IF IsPostgres(Head(dbs)) THEN Success(Some(Head(dbs)))
    ELSE FindPostgres(Tail(dbs))

\* blks_hit and blks_read as read from pg_stat (lines 24-25).
BlksHit(pg_stat) == IF IsNone(pg_stat) THEN 0 ELSE GetOr(pg_stat[1].blks_hit, 0)
BlksRead(pg_stat) == IF IsNone(pg_stat) THEN 1 ELSE GetOr(pg_stat[1].blks_read, 1)

\* blks_hit / blks_read (line 26); the quotient is kept as a fraction.
Divide(hit, read) ==
    IF read = 0 THEN Failure("ZeroDivisionError")
    ELSE Success([num |-> hit, den |-> read])

\* ToastSum keeping the last entry's size instead of adding the sizes up.
ToastSumLast(toast) ==
    LET ts == GetOr(toast, <<>>)
    IN IF ts = <<>> THEN 0 ELSE GetOr(ts[Len(ts)].toast_size_bytes, 0)

\* sum(t.get("toast_size_bytes", 0) for t in content.get("toast_stats", [])) (line 29).
ToastSum(toast) ==
    LET ts == GetOr(toast, <<>>)
    IN SumSeq([i \in 1..Len(ts) |-> GetOr(ts[i].toast_size_bytes, 0)])

\* The body of the try block of load_metrics (lines 16-43).
ParseMetrics(c) ==
    IF ~c.open THEN Failure("OSError")
    ELSE IF c.json = "invalid" THEN Failure("JSONDecodeError")
    ELSE IF c.json = "array" THEN Failure("TypeError")
    ELSE LET ts == MetricsTimestamp(c.timestamp)
         IN IF ~ts.ok THEN ts
            ELSE IF IsNone(c.db_stats) THEN Failure("KeyError")
            ELSE LET pg == FindPostgres(c.db_stats[1])
                 IN IF ~pg.ok THEN pg
                    ELSE LET ratio == Divide(BlksHit(pg.rec[1]), BlksRead(pg.rec[1]))
                         IN IF ~ratio.ok THEN ratio
                            ELSE Success([timestamp |-> ts.rec[1],
                                          blks_ratio |-> ratio.rec[1],
                                          toast_total |-> ToastSum(c.toast_stats),
                                          avg |-> c.avg])

\* ------------------------------------------------------------------ state
VARIABLES
    program,     \* which script runs: "single" (graphs.py) or "dual" (monitor/graphs.py)
    metric,      \* args.metric of graphs.py
    fs,          \* the file system: <<folder, file name>> -> file contents
    clock,       \* the wall clock read by datetime.now()
    pc,          \* the position of the running script
    files,       \* the sorted list a loader iterates over
    idx,         \* the loader's position in files
    snapshots,   \* load_snapshots' list, then main's snapshots
    data,        \* load_metrics' list
    data1,       \* main's data1 = load_metrics(folder1)
    data2,       \* main's data2 = load_metrics(folder2)
    timeseries,  \* build_timeseries' dict: entity -> ([timestamps], [values])
    si,          \* build_timeseries: index of the current snapshot
    ri,          \* build_timeseries: index of the current record
    out,         \* the lines printed so far
    plots,       \* the plot calls made so far
    exc          \* the exception that ended the script, "" if none

vars ==
    <<program, metric, fs, clock, pc, files, idx, snapshots, data, data1, data2,
      timeseries, si, ri, out, plots, exc>>

\* The names os.listdir / glob see in a folder.
ListDir(folder) == {p[2] : p \in {q \in DOMAIN fs : q[1] = folder}}

\* The folder a dual-folder loader call reads.
FolderOf(at) == IF at \in {"list1", "load1"} THEN "folder1" ELSE "folder2"

Message(kind, file, err) == [kind |-> kind, file |-> file, err |-> err]
PlotCall(fn, key, n1, n2) == [fn |-> fn, key |-> key, n1 |-> n1, n2 |-> n2]

\* ---------------------------------------------------------- initial states
\* Directory scenarios: up to MaxFiles files with any names, each with one of
\* a few representative contents.
DirSnapFiles ==
    { SnapUnopenable, SnapInvalidJson, SnapObject(TsMalformed, Some(<<>>)),
      SnapObject(TsAbsent, None),
      SnapObject(TsIso(1), Some(<<StatsRecord(Some("a"), Some(5), None)>>)) }
DirMetricsFiles ==
    { MetricsUnopenable, MetricsInvalidJson,
      MetricsObject(TsIso(1), Some(<<>>), None, NoAvg),
      MetricsObject(TsIso(2), Some(<<DbRecord(NullString("postgres", TRUE), Some(6), Some(3))>>),
                    Some(<<[toast_size_bytes |-> Some(100)]>>), SomeAvg) }
Placements(folders) ==
    {P \in SUBSET (folders \X Names) : Cardinality(P) <= MaxFiles}

\* Single-file scenarios: one matching file with any contents.
AnySnapFiles ==
    {SnapUnopenable, SnapInvalidJson, SnapArray}
        \cup {SnapObject(ts, st) : ts \in TsFields, st \in StatsFields}
AnyMetricsFiles ==
    {MetricsUnopenable, MetricsInvalidJson, MetricsArray}
        \cup {MetricsObject(ts, Some(<<>>), None, avg) : ts \in TsFields, avg \in {NoAvg, SomeAvg}}
        \cup {MetricsObject(TsIso(1), db, toast, SomeAvg) : db \in DbFields, toast \in ToastFields}

\* Series scenarios: two well-formed snapshot files with any stats whose
\* entries name their entity "a" or leave it out.
SeriesRecords == {r \in StatsRecords : r.datname # Some("unknown")}
SeriesFiles(d) == {SnapObject(TsIso(d), Some(s)) : s \in SeqUpTo(SeriesRecords, MaxRecs)}

FileSystems(prog) ==
    IF prog = "single"
    THEN UNION {[P -> DirSnapFiles] : P \in Placements({"export"})}
         \cup {[P \in {<<"export", Stats1Json>>} |-> c] : c \in AnySnapFiles}
         \cup { [P \in {<<"export", Stats10Json>>, <<"export", Stats2Json>>} |->
                    IF P[2] = Stats10Json THEN c1 ELSE c2] :
                c1 \in SeriesFiles(1), c2 \in SeriesFiles(2) }
    ELSE UNION {[P -> DirMetricsFiles] : P \in Placements({"folder1", "folder2"})}
         \cup {[P \in {<<"folder1", Other1Json>>} |-> c] : c \in AnyMetricsFiles}

Init ==
    /\ program \in {"single", "dual"}
    /\ metric \in (IF program = "single" THEN Metrics ELSE {""})
    /\ fs \in FileSystems(program)
    /\ clock = 0
    /\ pc = IF program = "single" THEN "glob" ELSE "list1"
    /\ files = <<>>
    /\ idx = 1
    /\ snapshots = <<>>
    /\ data = <<>>
    /\ data1 = <<>>
    /\ data2 = <<>>
    /\ timeseries = <<>>
    /\ si = 1
    /\ ri = 1
    /\ out = <<>>
    /\ plots = <<>>
    /\ exc = ""

\* ------------------------------------------------- graphs.py: the script
\* load_snapshots line 11 and the sorted() of line 13.
GlobSorted(folder) == Sorted({n \in ListDir(folder) : GlobStats(n)})

\* main calls load_snapshots(args.export_dir) (line 67): the files are listed.
GlobFiles ==
    /\ pc = "glob"
    /\ files' = GlobSorted("export")
    /\ idx' = 1
    /\ snapshots' = <<>>
    /\ pc' = "load"
    /\ UNCHANGED <<program, metric, fs, clock, data, data1, data2, timeseries, si, ri,
                   out, plots, exc>>

\* One iteration of load_snapshots' loop (lines 13-29). open() is outside the
\* try: its exception leaves load_snapshots and main.
LoadSnapshotsFile ==
    /\ pc = "load"
    /\ idx <= Len(files)
    /\ LET filename == files[idx]
           c == fs[<<"export", filename>>]
           r == ParseSnapshot(c, clock)
       IN IF ~c.open
          THEN /\ exc' = "OSError"
               /\ pc' = "crashed"
               /\ UNCHANGED <<snapshots, out, idx, clock>>
          ELSE /\ snapshots' = IF r.ok THEN Append(snapshots, r.rec[1]) ELSE snapshots
               /\ out' = IF r.ok THEN out
                         ELSE Append(out, Message("file_error", filename, r.err))
               /\ idx' = idx + 1
               /\ clock' = clock + 1
               /\ UNCHANGED <<pc, exc>>
    /\ UNCHANGED <<program, metric, fs, files, data, data1, data2, timeseries, si, ri, plots>>

\* LoadSnapshotsReturn without main's test for an empty collection.
LoadSnapshotsReturnUnchecked ==
    /\ pc = "load"
    /\ idx > Len(files)
    /\ pc' = "build_outer"
    /\ timeseries' = <<>>
    /\ si' = 1
    /\ ri' = 1
    /\ UNCHANGED <<program, metric, fs, clock, files, idx, snapshots, data, data1, data2,
                   out, plots, exc>>

\* load_snapshots returns (line 30) and main tests the result (lines 68-72).
LoadSnapshotsReturn ==
    /\ pc = "load"
    /\ idx > Len(files)
    /\ IF snapshots = <<>>
       THEN /\ out' = Append(out, Message("no_data", <<>>, ""))
            /\ pc' = "done"
       ELSE /\ pc' = "build_outer"
            /\ UNCHANGED out
    /\ timeseries' = <<>>
    /\ si' = 1
    /\ ri' = 1
    /\ UNCHANGED <<program, metric, fs, clock, files, idx, snapshots, data, data1, data2,
                   plots, exc>>

\* The position of key k in the dict d (a sequence of entries in insertion
\* order), 0 if it is not a key.
KeyIndex(d, k) ==
    IF \E i \in 1..Len(d) : d[i].key = k
    THEN CHOOSE i \in 1..Len(d) : d[i].key = k
    ELSE 0

\* AddRecord recording a placeholder for an entry without the metric.
AddRecordPlaceholder(d, record, t, m) ==
    LET dbname == GetOr(record.datname, "unknown")
        d1 == IF KeyIndex(d, dbname) = 0
              THEN Append(d, [key |-> dbname, times |-> <<>>, values |-> <<>>])
              ELSE d
        k == KeyIndex(d1, dbname)
    IN [d1 EXCEPT ![k].times = Append(@, t), ![k].values = Append(@, GetOr(record[m], 0))]

\* AddRecord putting the new point in front of the series.
AddRecordFront(d, record, t, m) ==
    LET dbname == GetOr(record.datname, "unknown")
        value == record[m]
    IN IF IsNone(value) THEN d
       ELSE LET d1 == IF KeyIndex(d, dbname) = 0
                      THEN Append(d, [key |-> dbname, times |-> <<>>, values |-> <<>>])
                      ELSE d
                k == KeyIndex(d1, dbname)
            IN [d1 EXCEPT ![k].times = <<t>> \o @, ![k].values = <<value[1]>> \o @]

\* AddRecord appending the timestamp before the test for a missing metric.
AddRecordTimeFirst(d, record, t, m) ==
    LET dbname == GetOr(record.datname, "unknown")
        value == record[m]
        d1 == IF KeyIndex(d, dbname) = 0
              THEN Append(d, [key |-> dbname, times |-> <<>>, values |-> <<>>])
              ELSE d
        k == KeyIndex(d1, dbname)
        d2 == [d1 EXCEPT ![k].times = Append(@, t)]
    IN IF IsNone(value) THEN d2 ELSE [d2 EXCEPT ![k].values = Append(@, value[1])]

\* build_timeseries lines 38-46 for one record at time t.
AddRecord(d, record, t, m) ==
    LET dbname == GetOr(record.datname, "unknown")
        value == record[m]
    IN IF IsNone(value) THEN d
       ELSE LET d1 == IF KeyIndex(d, dbname) = 0
                      THEN Append(d, [key |-> dbname, times |-> <<>>, values |-> <<>>])
                      ELSE d
                k == KeyIndex(d1, dbname)
            IN [d1 EXCEPT ![k].times = Append(@, t), ![k].values = Append(@, value[1])]

\* for snap in snapshots (lines 35-36): the next snapshot is taken.
BuildSnapshot ==
    /\ pc = "build_outer"
    /\ si <= Len(snapshots)
    /\ ri' = 1
    /\ pc' = "build_inner"
    /\ UNCHANGED <<program, metric, fs, clock, files, idx, snapshots, data, data1, data2,
                   timeseries, si, out, plots, exc>>

\* for record in snap["stats"] (lines 37-46): one record.
BuildRecord ==
    /\ pc = "build_inner"
    /\ ri <= Len(snapshots[si].stats)
    /\ timeseries' = AddRecord(timeseries, snapshots[si].stats[ri], snapshots[si].timestamp, metric)
    /\ ri' = ri + 1
    /\ UNCHANGED <<program, metric, fs, clock, pc, files, idx, snapshots, data, data1, data2,
                   si, out, plots, exc>>

\* The records of the current snapshot are exhausted.
BuildSnapshotDone ==
    /\ pc = "build_inner"
    /\ ri > Len(snapshots[si].stats)
    /\ si' = si + 1
    /\ pc' = "build_outer"
    /\ UNCHANGED <<program, metric, fs, clock, files, idx, snapshots, data, data1, data2,
                   timeseries, ri, out, plots, exc>>

\* build_timeseries returns (line 47) and main tests the result and plots
\* (lines 73-77).
BuildReturn ==
    /\ pc = "build_outer"
    /\ si > Len(snapshots)
    /\ IF timeseries = <<>>
       THEN /\ out' = Append(out, Message("metric_not_found", <<>>, ""))
            /\ UNCHANGED plots
       ELSE /\ plots' = Append(plots, PlotCall("plot_metric", metric, Len(timeseries), 0))
            /\ UNCHANGED out
    /\ pc' = "done"
    /\ UNCHANGED <<program, metric, fs, clock, files, idx, snapshots, data, data1, data2,
                   timeseries, si, ri, exc>>

\* ----------------------------------------- monitor/graphs.py: the script
\* sorted(os.listdir(folder_path)) (line 10).
ListSorted(folder) == Sorted(ListDir(folder))

\* main calls load_metrics (lines 137-138): data = [] and the folder is listed.
ListFolder ==
    /\ pc \in {"list1", "list2"}
    /\ files' = ListSorted(FolderOf(pc))
    /\ idx' = 1
    /\ data' = <<>>
    /\ pc' = IF pc = "list1" THEN "load1" ELSE "load2"
    /\ UNCHANGED <<program, metric, fs, clock, snapshots, data1, data2, timeseries, si, ri,
                   out, plots, exc>>

\* One iteration of load_metrics' loop (lines 10-46).
LoadMetricsFile ==
    /\ pc \in {"load1", "load2"}
    /\ idx <= Len(files)
    /\ LET filename == files[idx]
           r == ParseMetrics(fs[<<FolderOf(pc), filename>>])
       IN IF ~EndsWith(filename, JsonSuffix)
          THEN UNCHANGED <<data, out>>
          ELSE /\ data' = IF r.ok THEN Append(data, r.rec[1]) ELSE data
               /\ out' = IF r.ok THEN out
                         ELSE Append(out, Message("file_error", filename, r.err))
    /\ idx' = idx + 1
    /\ UNCHANGED <<program, metric, fs, clock, pc, files, snapshots, data1, data2,
                   timeseries, si, ri, plots, exc>>

\* load_metrics returns data (line 48) to main's data1 or data2.
LoadMetricsReturn ==
    /\ pc \in {"load1", "load2"}
    /\ idx > Len(files)
    /\ IF pc = "load1"
       THEN /\ data1' = data
            /\ pc' = "list2"
            /\ UNCHANGED data2
       ELSE /\ data2' = data
            /\ pc' = "plot1"
            /\ UNCHANGED data1
    /\ UNCHANGED <<program, metric, fs, clock, files, idx, snapshots, data, timeseries,
                   si, ri, out, plots, exc>>

\* A plot call of main and the step to the next line.
Plot(at, next, fn, key) ==
    /\ pc = at
    /\ plots' = Append(plots, PlotCall(fn, key, Len(data1), Len(data2)))
    /\ pc' = next
    /\ UNCHANGED <<program, metric, fs, clock, files, idx, snapshots, data, data1, data2,
                   timeseries, si, ri, out, exc>>

\* Lines 141-143.
PlotBlksRatio == Plot("plot1", "plot2", "plot_two_line_time_series", "blks_ratio")
\* Lines 146-148.
PlotToastTotal == Plot("plot2", "plot3", "plot_two_line_time_series", "toast_total")
\* Lines 151-159.
PlotAvgTimes == Plot("plot3", "plot4", "plot_multi_line_indexed", "avg_time_ms")
\* Lines 162-166.
PlotSelectXY == Plot("plot4", "done", "plot_xy_lines", "avg_select_time_ms")

Next ==
    \/ GlobFiles
    \/ LoadSnapshotsFile
    \/ LoadSnapshotsReturn
    \/ BuildSnapshot
    \/ BuildRecord
    \/ BuildSnapshotDone
    \/ BuildReturn
    \/ ListFolder
    \/ LoadMetricsFile
    \/ LoadMetricsReturn
    \/ PlotBlksRatio
    \/ PlotToastTotal
    \/ PlotAvgTimes
    \/ PlotSelectXY

Spec == Init /\ [][Next]_vars

\* ============================================================ properties
\* What the properties say of a file, stated on its contents alone.
JsonObject(c) == c.open /\ c.json = "object"
ValidTimestamp(c) == c.timestamp.kind = "string" /\ c.timestamp.iso
MalformedTimestamp(c) == c.timestamp.kind = "string" /\ ~c.timestamp.iso
HasDatname(db) == ~IsNone(db.datname)
NamedPostgres(db) == HasDatname(db) /\ db.datname[1].String = "postgres"
ValidPostgres(db) == NamedPostgres(db) /\ db.datname[1].Valid = TRUE

\* dbs[i] is the record load_metrics is to select: the first valid postgres
\* record, every record before it being readable.
SelectedAt(dbs, i) ==
    /\ ValidPostgres(dbs[i])
    /\ \A j \in 1..(i - 1) : HasDatname(dbs[j]) /\ ~ValidPostgres(dbs[j])
NoneSelected(dbs) == \A j \in 1..Len(dbs) : HasDatname(dbs[j]) /\ ~ValidPostgres(dbs[j])

\* The db_stats of c can be read and the ratio computed without a zero divisor.
DbStatsLoad(c) ==
    /\ ~IsNone(c.db_stats)
    /\ \/ NoneSelected(c.db_stats[1])
       \/ \E i \in 1..Len(c.db_stats[1]) :
             SelectedAt(c.db_stats[1], i) /\ c.db_stats[1][i].blks_read # Some(0)

\* A step of a loader over the file files[idx].
SnapshotsStep == pc = "load" /\ idx <= Len(files) /\ idx' = idx + 1
MetricsStep ==
    /\ pc \in {"load1", "load2"}
    /\ idx <= Len(files)
    /\ idx' = idx + 1
    /\ EndsWith(files[idx], JsonSuffix)
SnapshotsFile == fs[<<"export", files[idx]>>]
MetricsFileAt == fs[<<FolderOf(pc), files[idx]>>]
LastOf(s) == s[Len(s)]
Appended(old, new) == Len(new) = Len(old) + 1 /\ SubSeq(new, 1, Len(old)) = old
Logged(old, new, file) ==
    /\ Appended(old, new)
    /\ LastOf(new).kind = "file_error"
    /\ LastOf(new).file = file

\* ------------------------------------------------------------------- C1
\* The postgres record of c that is selected has blks_read = 0.
ZeroReadFile(c) ==
    /\ JsonObject(c)
    /\ ValidTimestamp(c)
    /\ ~IsNone(c.db_stats)
    /\ \E i \in 1..Len(c.db_stats[1]) :
          SelectedAt(c.db_stats[1], i) /\ c.db_stats[1][i].blks_read = Some(0)
ZeroReadHits(c) ==
    LET dbs == c.db_stats[1]
        i == CHOOSE k \in 1..Len(dbs) : SelectedAt(dbs, k)
    IN GetOr(dbs[i].blks_hit, 0)

\* C1: in load_metrics, a snapshot file whose selected postgres record has
\* blks_read = 0 gets the ratio blks_hit / 1: no division error is raised
\* (nothing is logged) and the file's DataPoint is appended to the result.
C1_ZeroReadUsesDenominatorOne ==
    [][(MetricsStep /\ ZeroReadFile(MetricsFileAt)) =>
          /\ out' = out
          /\ Appended(data, data')
          /\ LastOf(data').blks_ratio = [num |-> ZeroReadHits(MetricsFileAt), den |-> 1]]_vars

\* ------------------------------------------------------------------- C2
\* The timestamp a loader gives a file's record according to the claim: the
\* file's own if it is a valid ISO-8601 string, the wall clock otherwise.
ClaimedTimestamp(c) ==
    IF ValidTimestamp(c) THEN [src |-> "iso", t |-> c.timestamp.day]
    ELSE [src |-> "now", t |-> clock]

\* C2 as stated: in both loaders every file that parses as a JSON object (in
\* load_metrics: whose other fields load) is added to the collection, with
\* its own timestamp if that is a valid ISO-8601 string and with the current
\* wall-clock time if the field is absent, not a string or malformed.
C2_TimestampNeverExcludes ==
    [][/\ (SnapshotsStep /\ JsonObject(SnapshotsFile)) =>
            /\ Appended(snapshots, snapshots')
            /\ LastOf(snapshots').timestamp = ClaimedTimestamp(SnapshotsFile)
       /\ (MetricsStep /\ JsonObject(MetricsFileAt) /\ DbStatsLoad(MetricsFileAt)) =>
            /\ Appended(data, data')
            /\ LastOf(data').timestamp = ClaimedTimestamp(MetricsFileAt)]_vars

\* C2 amended: load_snapshots adds a JSON-object file with its own timestamp
\* if that is a valid ISO-8601 string and with the wall-clock time if the
\* field is absent or not a string, and logs and excludes a file whose
\* timestamp string is malformed; load_metrics adds a JSON-object file (whose
\* other fields load) only if its timestamp is a valid ISO-8601 string, with
\* that timestamp, and logs and excludes it if the field is absent, not a
\* string or malformed.
C2_TimestampHandling ==
    [][/\ (SnapshotsStep /\ JsonObject(SnapshotsFile)) =>
            IF MalformedTimestamp(SnapshotsFile)
            THEN snapshots' = snapshots /\ Logged(out, out', files[idx])
            ELSE /\ Appended(snapshots, snapshots')
                 /\ LastOf(snapshots').timestamp = ClaimedTimestamp(SnapshotsFile)
                 /\ out' = out
       /\ (MetricsStep /\ JsonObject(MetricsFileAt) /\ DbStatsLoad(MetricsFileAt)) =>
            IF ValidTimestamp(MetricsFileAt)
            THEN /\ Appended(data, data')
                 /\ LastOf(data').timestamp = ClaimedTimestamp(MetricsFileAt)
                 /\ out' = out
            ELSE data' = data /\ Logged(out, out', files[idx])]_vars

\* Witness of C2: load_snapshots has logged and excluded a file with a
\* malformed timestamp and added a file without timestamp at wall-clock time.
C2_Witness ==
    /\ pc = "load"
    /\ idx = 3
    /\ \E i, j \in 1..2 :
          /\ JsonObject(fs[<<"export", files[i]>>])
          /\ MalformedTimestamp(fs[<<"export", files[i]>>])
          /\ JsonObject(fs[<<"export", files[j]>>])
          /\ fs[<<"export", files[j]>>].timestamp = TsAbsent
    /\ Len(snapshots) = 1
    /\ snapshots[1].timestamp.src = "now"
    /\ Len(out) = 1
    /\ out[1].err = "ValueError"

\* ------------------------------------------------------------------- C3
\* C3: no exception leaves a loader, whatever files fail; a loader that has
\* returned has gone through every file of its sorted list.
C3_NoExceptionLeavesLoader ==
    /\ exc = ""
    /\ pc # "crashed"
    /\ pc \in {"build_outer", "build_inner", "done", "list2", "plot1", "plot2", "plot3", "plot4"}
          => idx = Len(files) + 1

\* ------------------------------------------------------------------- C4
NoStatsFiles == \A n \in ListDir("export") : ~GlobStats(n)
NoJsonFiles(folder) == \A n \in ListDir(folder) : ~EndsWith(n, JsonSuffix)
Printed(kind) == \E i \in 1..Len(out) : out[i].kind = kind

\* C4 as stated: with zero matching files, either script ends with an empty
\* collection, a "no data" report and no plot call.
C4_EmptyDirectoryNeverPlots ==
    /\ (program = "single" /\ pc = "done" /\ NoStatsFiles) =>
          snapshots = <<>> /\ Printed("no_data") /\ plots = <<>>
    /\ (program = "dual" /\ pc = "done" /\ NoJsonFiles("folder1") /\ NoJsonFiles("folder2")) =>
          data1 = <<>> /\ data2 = <<>> /\ Printed("no_data") /\ plots = <<>>

\* C4 amended: a directory with zero matching files loads as an empty
\* collection in both scripts; graphs.py then reports "no data" and ends
\* without a plot call, while monitor/graphs.py reports nothing and makes
\* its four plot calls on the collections, empty or not.
C4_EmptyDirectoryOutcome ==
    /\ (program = "single" /\ pc = "done" /\ NoStatsFiles) =>
          snapshots = <<>> /\ out = <<Message("no_data", <<>>, "")>> /\ plots = <<>>
    /\ (program = "dual" /\ pc = "done") =>
          /\ NoJsonFiles("folder1") => data1 = <<>>
          /\ NoJsonFiles("folder2") => data2 = <<>>
          /\ ~Printed("no_data")
          /\ Len(plots) = 4
          /\ \A i \in 1..4 : plots[i].n1 = Len(data1) /\ plots[i].n2 = Len(data2)

\* Witness of C4: monitor/graphs.py has ended on two folders without .json
\* files, of which one is not empty, having plotted the empty collections.
C4_Witness ==
    /\ program = "dual"
    /\ pc = "done"
    /\ NoJsonFiles("folder1")
    /\ NoJsonFiles("folder2")
    /\ ListDir("folder1") # {}
    /\ data1 = <<>>
    /\ data2 = <<>>
    /\ out = <<>>
    /\ Len(plots) = 4
    /\ plots[1].n1 = 0

\* ------------------------------------------------------------------- C5
\* c loads and every record of it named "postgres" has Valid = false
\* (there is one).
OnlyInvalidPostgres(c) ==
    /\ JsonObject(c)
    /\ ValidTimestamp(c)
    /\ ~IsNone(c.db_stats)
    /\ \A j \in 1..Len(c.db_stats[1]) : HasDatname(c.db_stats[1][j])
    /\ \E j \in 1..Len(c.db_stats[1]) : NamedPostgres(c.db_stats[1][j])
    /\ \A j \in 1..Len(c.db_stats[1]) :
          NamedPostgres(c.db_stats[1][j]) => c.db_stats[1][j].datname[1].Valid = FALSE

\* C5: load_metrics selects a record only if its name is "postgres" and its
\* Valid flag is true: a snapshot whose records named "postgres" all have
\* Valid = false gets a DataPoint with blks_ratio = 0 / 1, whatever the
\* blks_hit and blks_read of those records.
C5_InvalidPostgresNotSelected ==
    [][(MetricsStep /\ OnlyInvalidPostgres(MetricsFileAt)) =>
          /\ out' = out
          /\ Appended(data, data')
          /\ LastOf(data').blks_ratio = [num |-> 0, den |-> 1]]_vars

\* Witness of C5: the DataPoint of a file whose only postgres record is
\* invalid, with blks_hit = 6 and blks_read = 3, has the ratio 0 / 1.
C5_Witness ==
    /\ pc = "load1"
    /\ idx = 2
    /\ EndsWith(files[1], JsonSuffix)
    /\ OnlyInvalidPostgres(fs[<<"folder1", files[1]>>])
    /\ \E j \in 1..Len(fs[<<"folder1", files[1]>>].db_stats[1]) :
          /\ NamedPostgres(fs[<<"folder1", files[1]>>].db_stats[1][j])
          /\ fs[<<"folder1", files[1]>>].db_stats[1][j].blks_hit = Some(6)
    /\ Len(data) = 1
    /\ data[1].blks_ratio = [num |-> 0, den |-> 1]

\* ------------------------------------------------------------------ C10
RECURSIVE SumOver(_, _)
\* The sum of f[i] over the indices i of the set I.
SumOver(f, I) ==
    IF I = {} THEN 0
    ELSE LET i == CHOOSE k \in I : TRUE IN f[i] + SumOver(f, I \ {i})

\* The sum of the toast_size_bytes the entries of c's toast_stats carry.
ToastBytes(c) ==
    IF IsNone(c.toast_stats) THEN 0
    ELSE LET ts == c.toast_stats[1]
             carrying == {i \in 1..Len(ts) : ~IsNone(ts[i].toast_size_bytes)}
         IN SumOver([i \in carrying |-> ts[i].toast_size_bytes[1]], carrying)

\* C10: the toast_total of every DataPoint load_metrics adds is the sum of
\* toast_size_bytes over the entries of the file's toast_stats, 0 when
\* toast_stats is empty or absent.
C10_ToastTotalIsSum ==
    [][(MetricsStep /\ Len(data') > Len(data)) =>
          /\ Appended(data, data')
          /\ LastOf(data').toast_total = ToastBytes(MetricsFileAt)
          /\ (IsNone(MetricsFileAt.toast_stats) \/ MetricsFileAt.toast_stats = Some(<<>>))
                => LastOf(data').toast_total = 0]_vars

\* Witness of C10: a file with entries of 100 and 50 bytes has a DataPoint
\* with toast_total = 150.
C10_Witness ==
    /\ pc = "load1"
    /\ idx = 2
    /\ EndsWith(files[1], JsonSuffix)
    /\ fs[<<"folder1", files[1]>>].toast_stats =
          Some(<<[toast_size_bytes |-> Some(100)], [toast_size_bytes |-> Some(50)]>>)
    /\ Len(data) = 1
    /\ data[1].toast_total = 150

\* --------------------------------------------------------- C6, C7, C9
\* The stats entries of a snapshot collection with their snapshot's
\* timestamp, in snapshot order, then entry order.
RECURSIVE Entries(_)
Entries(snaps) ==
    IF snaps = <<>> THEN <<>>
    ELSE [j \in 1..Len(Head(snaps).stats) |->
             [t |-> Head(snaps).timestamp, rec |-> Head(snaps).stats[j]]]
         \o Entries(Tail(snaps))

EntityOf(rec) == IF rec.datname = None THEN "unknown" ELSE rec.datname[1]
Carries(rec, m) == rec[m] # None

\* The entries of entity e that carry the metric m.
EntriesOf(snaps, e, m) ==
    SelectSeq(Entries(snaps), LAMBDA p : EntityOf(p.rec) = e /\ Carries(p.rec, m))

BuildDone == program = "single" /\ pc = "done" /\ snapshots # <<>>

\* C6: in graphs.py, when the snapshot collection is not empty and none of
\* its stats entries carries the metric, build_timeseries returns an empty
\* mapping and main reports "metric not found" and does not plot; that
\* report is never made for an empty collection, which gets "no data".
C6_MetricNotFoundIsDistinct ==
    (program = "single" /\ pc = "done") =>
        /\ (snapshots # <<>> /\ \A i \in 1..Len(Entries(snapshots)) :
                                  ~Carries(Entries(snapshots)[i].rec, metric)) =>
              /\ timeseries = <<>>
              /\ out # <<>>
              /\ LastOf(out).kind = "metric_not_found"
              /\ ~Printed("no_data")
              /\ plots = <<>>
        /\ snapshots = <<>> => ~Printed("metric_not_found") /\ Printed("no_data")

\* Witness of C6: graphs.py has ended on snapshots that have stats entries,
\* none with the metric, and has reported "metric not found".
C6_Witness ==
    /\ BuildDone
    /\ Entries(snapshots) # <<>>
    /\ timeseries = <<>>
    /\ Printed("metric_not_found")
    /\ plots = <<>>

\* C7: build_timeseries returns a mapping whose keys are the entities with
\* at least one entry carrying the metric, each once, and in which an
\* entity's series is the (timestamp, value) pairs of its entries carrying
\* the metric, in snapshot order, then entry order.
C7_SeriesAreTheCarryingEntries ==
    BuildDone =>
        /\ \A i, j \in 1..Len(timeseries) : timeseries[i].key = timeseries[j].key => i = j
        /\ \A i \in 1..Len(timeseries) :
              LET ps == EntriesOf(snapshots, timeseries[i].key, metric)
              IN /\ ps # <<>>
                 /\ Len(timeseries[i].times) = Len(ps)
                 /\ Len(timeseries[i].values) = Len(ps)
                 /\ \A k \in 1..Len(ps) :
                       /\ timeseries[i].times[k] = ps[k].t
                       /\ timeseries[i].values[k] = ps[k].rec[metric][1]
        /\ \A k \in 1..Len(Entries(snapshots)) :
              Carries(Entries(snapshots)[k].rec, metric) =>
                  \E i \in 1..Len(timeseries) :
                      timeseries[i].key = EntityOf(Entries(snapshots)[k].rec)

\* Witness of C7: two snapshots of different times gave entity "a" the
\* series (5, 7) and an entry without datname went to "unknown".
C7_Witness ==
    /\ BuildDone
    /\ Len(snapshots) = 2
    /\ \E i, j \in 1..Len(timeseries) :
          /\ timeseries[i].key = "a"
          /\ timeseries[i].values = <<5, 7>>
          /\ timeseries[i].times[1] # timeseries[i].times[2]
          /\ timeseries[j].key = "unknown"
    /\ \E k \in 1..Len(Entries(snapshots)) :
          /\ Entries(snapshots)[k].rec.datname = None
          /\ Carries(Entries(snapshots)[k].rec, metric)
    /\ \E k \in 1..Len(Entries(snapshots)) : ~Carries(Entries(snapshots)[k].rec, metric)

IsPrefix(s, u) == Len(s) <= Len(u) /\ SubSeq(u, 1, Len(s)) = s

\* C9: at every step of build_timeseries every series has as many
\* timestamps as values, and a step only appends: the series that exist keep
\* their key and their elements, in place.
C9_SeriesAlignedAndAppendOnly ==
    [][/\ \A i \in 1..Len(timeseries') :
             Len(timeseries'[i].times) = Len(timeseries'[i].values)
       /\ Len(timeseries) <= Len(timeseries')
       /\ \A i \in 1..Len(timeseries) :
             /\ timeseries'[i].key = timeseries[i].key
             /\ IsPrefix(timeseries[i].times, timeseries'[i].times)
             /\ IsPrefix(timeseries[i].values, timeseries'[i].values)]_vars

\* Witness of C9: build_timeseries is at work on a mapping with a series of
\* two points and another series, with an entry skipped before.
C9_Witness ==
    /\ pc = "build_inner"
    /\ Len(timeseries) = 2
    /\ Len(timeseries[1].times) = 2
    /\ Len(timeseries[1].values) = 2
    /\ ri = 3
    /\ ~Carries(snapshots[si].stats[1], metric)

\* ------------------------------------------------------------------- C8
\* The number of names of S before n in string order.
Rank(S, n) == Cardinality({m \in S : StrLess(m, n)})

StatsNames == {n \in ListDir("export") : GlobStats(n)}
JsonNames(folder) == {n \in ListDir(folder) : EndsWith(n, JsonSuffix)}

\* The files load_snapshots and load_metrics are to load.
SnapshotLoads(c) == JsonObject(c) /\ ~MalformedTimestamp(c)
MetricsLoads(c) == JsonObject(c) /\ ValidTimestamp(c) /\ DbStatsLoad(c)

\* coll is one record per name of S among the first k names of All (in string
\* order), in string order of the names, Matches(record, name) telling that
\* a record is the one of a name.
OneRecordPerFile(coll, All, S, k, Matches(_, _)) ==
    LET done == {n \in S : Rank(All, n) < k}
    IN /\ Len(coll) = Cardinality(done)
       /\ \A n \in done : Matches(coll[Rank(done, n) + 1], n)

SnapshotOf(snap, n) ==
    LET c == fs[<<"export", n>>]
    IN /\ snap.stats = (IF IsNone(c.stats) THEN <<>> ELSE c.stats[1])
       /\ snap.timestamp = (IF ValidTimestamp(c) THEN [src |-> "iso", t |-> c.timestamp.day]
                            ELSE [src |-> "now", t |-> Rank(StatsNames, n)])
PointOf(folder, point, n) ==
    LET c == fs[<<folder, n>>]
    IN /\ point.timestamp = [src |-> "iso", t |-> c.timestamp.day]
       /\ point.avg = c.avg
PointOf1(point, n) == PointOf("folder1", point, n)
PointOf2(point, n) == PointOf("folder2", point, n)

Loaded(folder) == {n \in JsonNames(folder) : MetricsLoads(fs[<<folder, n>>])}
SnapshotsLoaded == {n \in StatsNames : SnapshotLoads(fs[<<"export", n>>])}

\* C8: the collection of a loader holds one record for each file that
\* loaded and none for a file that failed, in the string order of the file
\* names: while the loader runs, for the files it has gone through, and once
\* it has returned (to main's snapshots, data1 or data2), for all the
\* matching files of the directory.
C8_OneRecordPerLoadedFileInNameOrder ==
    /\ pc \in {"load", "crashed"} =>
          OneRecordPerFile(snapshots, StatsNames, SnapshotsLoaded, idx - 1, SnapshotOf)
    /\ (program = "single" /\ (pc = "done" \/ (pc = "build_outer" /\ si = 1))) =>
          OneRecordPerFile(snapshots, StatsNames, SnapshotsLoaded,
                           Cardinality(StatsNames), SnapshotOf)
    /\ pc = "load1" =>
          OneRecordPerFile(data, ListDir("folder1"), Loaded("folder1"), idx - 1, PointOf1)
    /\ pc = "load2" =>
          OneRecordPerFile(data, ListDir("folder2"), Loaded("folder2"), idx - 1, PointOf2)
    /\ (program = "dual" /\ pc \in {"list2", "done"}) =>
          OneRecordPerFile(data1, ListDir("folder1"), Loaded("folder1"),
                           Cardinality(ListDir("folder1")), PointOf1)
    /\ pc \in {"plot1", "done"} =>
          OneRecordPerFile(data2, ListDir("folder2"), Loaded("folder2"),
                           Cardinality(ListDir("folder2")), PointOf2)

\* Witness of C8: load_metrics has returned two records for a folder of
\* three .json files of which the first in string order failed, the records
\* being those of stats_10.json and stats_2.json in that order.
C8_Witness ==
    /\ program = "dual"
    /\ pc = "list2"
    /\ JsonNames("folder1") = {Other1Json, Stats10Json, Stats2Json}
    /\ ~MetricsLoads(fs[<<"folder1", Other1Json>>])
    /\ fs[<<"folder1", Stats10Json>>].timestamp = TsIso(2)
    /\ fs[<<"folder1", Stats2Json>>].timestamp = TsIso(1)
    /\ Len(data1) = 2
    /\ data1[1].timestamp.t = 2
    /\ data1[2].timestamp.t = 1

====
